---- MODULE Spec2Model ----
(***************************************************************************)
(* State-machine model of kdetools.gaussian_kde (src/kdetools/kde.py):     *)
(* bandwidth selection (set_bandwidth, _compute_covariance, inv_cov),      *)
(* k-fold splitting (kfold_split) and conditional_resample.                *)
(*                                                                         *)
(* Numbers.  Real quantities are carried by integers: datasets are integer *)
(* matrices whose sample covariances are integers, bandwidth factors are   *)
(* small integers.  A Cholesky factor L is carried by the symmetric matrix *)
(* L*L^T it factors (L is unique), log_det by the determinant whose        *)
(* logarithm it is, and an inverse by adjugate and determinant.            *)
(* Arrays are sequences (positions from 1); index *values* are 0-based as  *)
(* in the source.                                                          *)
(***************************************************************************)
EXTENDS Integers, Sequences, FiniteSets, Bags, TLC

----------------------------------------------------------------------------
(* Bounds of the explored inputs *)

\* largest X.shape[0] handed to a direct kfold_split call
MaxN == 5
\* optimiser results and scalar bandwidths range over -1..MaxH
MaxH == 1
\* largest number of query rows of x_cond
MaxM == 2
\* largest `size` of conditional_resample
MaxSize == 2

----------------------------------------------------------------------------
(* Generic array helpers *)

Range(s) == {s[i] : i \in DOMAIN s}

Min2(a, b) == IF a <= b THEN a ELSE b

Max2(a, b) == IF a >= b THEN a ELSE b

RECURSIVE SumSeq(_)
SumSeq(s) == IF s = <<>> THEN 0 ELSE Head(s) + SumSeq(Tail(s))

RECURSIVE Flatten(_)
\* np.concatenate of a list of 1-d arrays
Flatten(ss) == IF ss = <<>> THEN <<>> ELSE Head(ss) \o Flatten(Tail(ss))

\* np.arange(lo, hi)
Arange(lo, hi) == [i \in 1..Max2(hi - lo, 0) |-> lo + i - 1]

\* ascending sequence of a finite set of integers
RECURSIVE SortedSeq(_)
SortedSeq(S) ==
    IF S = {} THEN <<>>
    ELSE LET m == CHOOSE x \in S : \A y \in S : x <= y
         IN  <<m>> \o SortedSeq(S \ {m})

----------------------------------------------------------------------------
(* kfold_split, kde.py:63-67 *)

\* mutant of array_split: the last n mod k sections get the extra element
array_split_extras_last(n, k) ==
    LET Neach  == n \div k
        extras == n % k
        start(j) == j * Neach + Max2(j - (k - extras), 0)
    IN  [jj \in 1..k |-> Arange(start(jj - 1), start(jj))]

\* np.array_split(np.arange(n), k): the first n mod k sections get one more
\* element; block j (0-based) starts at j*(n div k) + min(j, n mod k)
array_split(n, k) ==
    LET Neach  == n \div k
        extras == n % k
        start(j) == j * Neach + Min2(j, extras)
    IN  [jj \in 1..k |-> Arange(start(jj - 1), start(jj))]

\* mutant of kfold_split: the train part does not leave out block j
kfold_split_keeps_test(n, k) ==
    IF k <= 0 THEN [status |-> "ValueError", folds |-> <<>>]
    ELSE IF k = 1 THEN [status |-> "ValueError", folds |-> <<>>]
    ELSE LET splits == array_split(n, k)
         IN  [status |-> "ok",
              folds  |-> [jj \in 1..k |->
                            [train |-> Flatten([ii \in 1..(k - 1) |->
                                                 splits[ii]]),
                             test  |-> splits[jj]]]]

\* kfold_split(X, k) with n = X.shape[0].  array_split rejects k <= 0;
\* for k = 1 the list handed to np.concatenate is empty, which raises
\* ValueError; otherwise fold j has test block j and the other blocks,
\* in ascending block order, as train.
kfold_split(n, k) ==
    IF k <= 0 THEN [status |-> "ValueError", folds |-> <<>>]
    ELSE IF k = 1 THEN [status |-> "ValueError", folds |-> <<>>]
    ELSE LET splits == array_split(n, k)
             others(jj) == SortedSeq((1..k) \ {jj})
         IN  [status |-> "ok",
              folds  |-> [jj \in 1..k |->
                            [train |-> Flatten([ii \in 1..(k - 1) |->
                                                 splits[others(jj)[ii]]]),
                             test  |-> splits[jj]]]]

----------------------------------------------------------------------------
(* Linear algebra on integer matrices (sequences of rows) *)

\* M without row i and column j
Minor(M, i, j) ==
    [r \in 1..(Len(M) - 1) |->
       [c \in 1..(Len(M) - 1) |->
          M[IF r < i THEN r ELSE r + 1][IF c < j THEN c ELSE c + 1]]]

RECURSIVE Det(_)
\* Laplace expansion along the first row; the 0x0 determinant is 1
Det(M) ==
    IF Len(M) = 0 THEN 1
    ELSE IF Len(M) = 1 THEN M[1][1]
    ELSE LET term(j) == (IF j % 2 = 1 THEN 1 ELSE -1) * M[1][j]
                          * Det(Minor(M, 1, j))
         IN  SumSeq([j \in 1..Len(M) |-> term(j)])

\* adjugate: Adj(M) * M = Det(M) * I
Adj(M) ==
    [i \in 1..Len(M) |->
       [j \in 1..Len(M) |->
          (IF (i + j) % 2 = 0 THEN 1 ELSE -1) * Det(Minor(M, j, i))]]

Eye(d) == [i \in 1..d |-> [j \in 1..d |-> IF i = j THEN 1 ELSE 0]]

\* product of an (a x b) and a (b x c) matrix; c is passed because a matrix
\* without rows does not carry its column count
MatMul(A, B, b, c) ==
    [i \in 1..Len(A) |->
       [j \in 1..c |-> SumSeq([l \in 1..b |-> A[i][l] * B[l][j]])]]

ScalMat(s, M) == [i \in 1..Len(M) |-> [j \in 1..Len(M[i]) |-> s * M[i][j]]]

\* M[np.ix_(rows, cols)] for 0-based index sequences
Ix(M, rows, cols) ==
    [r \in 1..Len(rows) |-> [c \in 1..Len(cols) |-> M[rows[r] + 1][cols[c] + 1]]]

\* the symmetric matrix that a lower=True factorisation reads: only the
\* lower triangle of M is referenced
LowerSym(M) ==
    [i \in 1..Len(M) |-> [j \in 1..Len(M) |-> M[Max2(i, j)][Min2(i, j)]]]

\* Sylvester: all leading principal minors positive
IsPosDef(S) ==
    \A m \in 1..Len(S) :
        Det([i \in 1..m |-> [j \in 1..m |-> S[i][j]]]) > 0

\* scipy.linalg.cholesky(M, lower=True): LinAlgError unless the matrix read
\* from the lower triangle is positive definite; the factor L is carried by
\* L*L^T
cholesky(M) ==
    IF IsPosDef(LowerSym(M)) THEN [exc |-> "none", LLT |-> LowerSym(M)]
    ELSE [exc |-> "LinAlgError", LLT |-> <<>>]

\* np.linalg.inv(M): LinAlgError on a singular matrix; the inverse is
\* carried as adjugate over determinant
np_inv(M) ==
    IF Det(M) = 0 THEN [exc |-> "LinAlgError", num |-> <<>>, den |-> 0]
    ELSE [exc |-> "none", num |-> Adj(M), den |-> Det(M)]

\* np.cov(dataset, rowvar=1, bias=False) with uniform weights:
\* (n*Sum(xa*xb) - Sum(xa)*Sum(xb)) / (n*(n-1))
np_cov(X) ==
    LET n == Len(X[1])
        S(a, b) == SumSeq([j \in 1..n |-> X[a][j] * X[b][j]])
        T(a) == SumSeq(X[a])
    IN  [a \in 1..Len(X) |->
           [b \in 1..Len(X) |-> (n * S(a, b) - T(a) * T(b)) \div (n * (n - 1))]]

----------------------------------------------------------------------------
(* The fitted model: attributes of a gaussian_kde instance *)

\* datasets (d rows, n columns) the model is fitted on; each has an integer,
\* positive-definite sample covariance
Datasets ==
    { << <<0, 2, 4>> >>,
      << <<0, 2, 4>>, <<0, 2, 1>> >> }

VARIABLES
    dataset,            \* self.dataset, (d, n); never assigned after __init__
    bw_type,            \* self.bw_type
    h,                  \* self.h, unset until a 'cv' selection stores it
    loglike_cv,         \* self.loglike_cv, <<>> while unset
    covariance_factor,  \* which callable self.covariance_factor is bound to
    factor,             \* self.factor
    data_covariance,    \* self._data_covariance
    data_cho_cov,       \* self._data_cho_cov
    covariance,         \* self.covariance
    cho_cov,            \* self.cho_cov
    log_det,            \* self.log_det
    n_data_cov,         \* how many times np.cov / cholesky of the data ran
    last_set,           \* how the latest set_bandwidth call ended
    ret                 \* the call the caller has just made and its result

vars == <<dataset, bw_type, h, loglike_cv, covariance_factor, factor,
          data_covariance, data_cho_cov, covariance, cho_cov, log_det,
          n_data_cov, last_set, ret>>

\* the instance as one record
self == [dataset |-> dataset, bw_type |-> bw_type, h |-> h,
         loglike_cv |-> loglike_cv, covariance_factor |-> covariance_factor,
         factor |-> factor, data_covariance |-> data_covariance,
         data_cho_cov |-> data_cho_cov, covariance |-> covariance,
         cho_cov |-> cho_cov, log_det |-> log_det, n_data_cov |-> n_data_cov]

\* numbers as numpy holds them: a python/numpy scalar or a 1-d array
Scalar(c) == [shape |-> "scalar", v |-> <<c>>]

Array(v) == [shape |-> "array", v |-> v]

Unset == [shape |-> "unset", v |-> <<>>]

\* an attribute that does not exist yet (hasattr is False)
NoMatrix == <<>>

NoChol == [exc |-> "unset", LLT |-> <<>>]

NoLogDet == [dim |-> 0, det |-> 0]

\* elementwise x**2
Square(x) == [x EXCEPT !.v = [i \in 1..Len(x.v) |-> x.v[i] * x.v[i]]]

\* self.d, self.n
dim_d(obj) == Len(obj.dataset)

dim_n(obj) == Len(obj.dataset[1])

\* scipy's scotts_factor and silverman_factor: positive numbers fixed by
\* (n, d); carried by positive integers
scotts_factor(obj) == 1

silverman_factor(obj) == 2

\* self.covariance_factor(): the bound callable.  `lambda: self.h` reads
\* self.h when called, not when it was installed.
call_covariance_factor(obj) ==
    CASE obj.covariance_factor.kind = "scotts_factor" -> Scalar(scotts_factor(obj))
      [] obj.covariance_factor.kind = "silverman_factor" -> Scalar(silverman_factor(obj))
      [] obj.covariance_factor.kind = "constant" -> Scalar(obj.covariance_factor.c)
      [] obj.covariance_factor.kind = "lambda_h" -> obj.h

\* np.diag(f2): a 1-d array gives the diagonal matrix, a scalar (0-d) input
\* raises ValueError
np_diag(f2) ==
    IF f2.shape = "array"
    THEN [exc |-> "none",
          M |-> [i \in 1..Len(f2.v) |->
                   [j \in 1..Len(f2.v) |-> IF i = j THEN f2.v[i] ELSE 0]]]
    ELSE [exc |-> "ValueError", M |-> <<>>]

\* M * f2 with numpy broadcasting: a scalar or a length-1 array scales every
\* entry, a length-d array scales column j by f2[j]
broadcast_mul(M, f2) ==
    IF Len(f2.v) = 1
    THEN [exc |-> "none", M |-> ScalMat(f2.v[1], M)]
    ELSE [exc |-> "none",
          M |-> [i \in 1..Len(M) |-> [j \in 1..Len(M) |-> M[i][j] * f2.v[j]]]]

\* mutant of derive_covariance: the 'equal' branch is missing, so 'equal'
\* falls through to the data-covariance branch
derive_covariance_without_equal(obj, type, fac) ==
    IF type = "diagonal" THEN np_diag(Square(fac))
    ELSE broadcast_mul(obj.data_covariance, Square(fac))

\* the kernel covariance for a bandwidth type and factor, kde.py:153-158
\* (the same expressions are used by inv_cov, kde.py:169-174)
derive_covariance(obj, type, fac) ==
    IF type = "diagonal" THEN np_diag(Square(fac))
    ELSE IF type = "equal" THEN broadcast_mul(Eye(dim_d(obj)), Square(fac))
    ELSE broadcast_mul(obj.data_covariance, Square(fac))

\* log_det = 2*sum(log(diag(L)*sqrt(2*pi))) = log((2*pi)^dim * det(L*L^T))
log_det_of(cho) == [dim |-> Len(cho.LLT), det |-> Det(cho.LLT)]

\* _compute_covariance, kde.py:139-161.  Returns the instance as the call
\* leaves it and the exception that ended it ("none" when it completed).
compute_covariance(obj) ==
    LET o1 == [obj EXCEPT !.factor = call_covariance_factor(obj)]
        fresh == o1.data_cho_cov.exc = "unset"
        dcov == np_cov(o1.dataset)
        dcho == cholesky(dcov)
        o2 == IF ~fresh THEN o1
              ELSE IF dcho.exc # "none"
                   THEN [o1 EXCEPT !.data_covariance = dcov,
                                   !.n_data_cov = @ + 1]
                   ELSE [o1 EXCEPT !.data_covariance = dcov,
                                   !.data_cho_cov = dcho,
                                   !.n_data_cov = @ + 1]
        cov == derive_covariance(o2, o2.bw_type, o2.factor)
        o3 == [o2 EXCEPT !.covariance = cov.M]
        cho == cholesky(cov.M)
    IN  IF fresh /\ dcho.exc # "none" THEN [obj |-> o2, exc |-> dcho.exc]
        ELSE IF cov.exc # "none" THEN [obj |-> o2, exc |-> cov.exc]
        ELSE IF cho.exc # "none" THEN [obj |-> o3, exc |-> cho.exc]
        ELSE [obj |-> [o3 EXCEPT !.cho_cov = cho, !.log_det = log_det_of(cho)],
              exc |-> "none"]

----------------------------------------------------------------------------
(* set_bandwidth, kde.py:82-137 *)

\* bw_type strings a caller may pass
BwTypes == {"diagonal", "covariance", "equal", "covariance_original", "other"}

\* values of the optimised factors and of a scalar bw_method
HVals == (0 - 1)..MaxH

\* bw_method: 'cv', None, 'scott', 'silverman', a scalar, or another string
BwMethods ==
    {[kind |-> m, c |-> 0] : m \in {"cv", "None", "scott", "silverman", "other"}}
    \cup {[kind |-> "scalar", c |-> c] : c \in HVals}

\* the value so.minimize reports for the objective at x; the objective is a
\* deterministic function of x (every objective uses h only through h**2)
objective_at(x) == 1 + SumSeq(Square(x).v)

\* what so.minimize(..., h0, method='nelder-mead') may return: x has the
\* shape of h0, (d,) for 'diagonal' and (1,) otherwise; the simplex search is
\* unconstrained, so any value of x is possible
minimize_results(obj, type) ==
    LET len == IF type = "diagonal" THEN dim_d(obj) ELSE 1
    IN  {[x |-> Array(v), fun |-> objective_at(Array(v))] :
            v \in [1..len -> HVals]}

\* the baseline scipy set_bandwidth reached through super(), kde.py:137:
\* rebinds covariance_factor (None leaves it alone), raises ValueError on an
\* unknown method, then calls self._compute_covariance()
super_set_bandwidth(obj, bw_method) ==
    LET rebound(kind, c) ==
            [obj EXCEPT !.covariance_factor = [kind |-> kind, c |-> c]]
    IN  CASE bw_method.kind = "None" -> compute_covariance(obj)
          [] bw_method.kind = "scott" ->
                compute_covariance(rebound("scotts_factor", 0))
          [] bw_method.kind = "silverman" ->
                compute_covariance(rebound("silverman_factor", 0))
          [] bw_method.kind = "scalar" ->
                compute_covariance(rebound("constant", bw_method.c))
          [] OTHER -> [obj |-> obj, exc |-> "ValueError"]

\* the selection proper, kde.py:119-134: record the type, split, minimise,
\* install h and recompute the covariance
select_bandwidth(obj, type, k, res) ==
    LET o1 == [obj EXCEPT !.bw_type = type]
        kk == IF k = <<>> THEN dim_n(obj) ELSE k[1]
        splits == kfold_split(dim_n(obj), kk)
        o2 == [o1 EXCEPT !.h = res.x,
                         !.loglike_cv = <<0 - res.fun>>,
                         !.covariance_factor = [kind |-> "lambda_h", c |-> 0]]
        r == compute_covariance(o2)
    IN  IF splits.status # "ok"
        THEN [obj |-> o1, exc |-> splits.status, aborted |-> FALSE]
        ELSE [obj |-> r.obj, exc |-> r.exc, aborted |-> FALSE]

\* the delegation to the baseline, kde.py:135-137
delegate_bandwidth(obj, bw_method) ==
    LET o1 == [obj EXCEPT !.bw_type = "covariance_original"]
        r == super_set_bandwidth(o1, bw_method)
    IN  [obj |-> r.obj, exc |-> r.exc, aborted |-> FALSE]

\* mutant of set_bandwidth: bw_type is recorded before it is validated
set_bandwidth_records_type_first(obj, bw_method, type, k, res) ==
    IF bw_method.kind = "cv"
    THEN IF type \notin {"diagonal", "covariance", "equal"}
         THEN [obj |-> [obj EXCEPT !.bw_type = type], exc |-> "none",
               aborted |-> TRUE]
         ELSE select_bandwidth(obj, type, k, res)
    ELSE delegate_bandwidth(obj, bw_method)

\* set_bandwidth(bw_method, bw_type, k) with the optimiser's result res.
\* k is <<>> for None.  Returns the instance as the call leaves it, the
\* exception that ended it, and whether it ended at the early `return None`
\* (kde.py:116-118), which is taken before anything is assigned.
set_bandwidth(obj, bw_method, type, k, res) ==
    IF bw_method.kind = "cv"
    THEN IF type \notin {"diagonal", "covariance", "equal"}
         THEN [obj |-> obj, exc |-> "none", aborted |-> TRUE]
         ELSE select_bandwidth(obj, type, k, res)
    ELSE delegate_bandwidth(obj, bw_method)

\* the inv_cov property, kde.py:163-174: rebinds self.factor and inverts the
\* matrix re-derived from bw_type and covariance_factor()
inv_cov(obj) ==
    LET o1 == [obj EXCEPT !.factor = call_covariance_factor(obj)]
        M == derive_covariance(o1, o1.bw_type, o1.factor)
        inv == np_inv(M.M)
    IN  IF M.exc # "none"
        THEN [obj |-> o1, exc |-> M.exc, num |-> <<>>, den |-> 0]
        ELSE [obj |-> o1, exc |-> inv.exc, num |-> inv.num, den |-> inv.den]

----------------------------------------------------------------------------
(* conditional_resample, kde.py:176-237 *)

\* entries of x_cond
XVals == {0, 1}

\* entries of the zero-mean noise drawn by multivariate_normal
NoiseVals == {0, 1}

RECURSIVE Compositions(_, _)
\* the outcomes of random_state.multinomial(size, p) over n kernels: every
\* vector of n counts that sums to size (all p are positive)
Compositions(size, n) ==
    IF n = 0 THEN (IF size = 0 THEN {<<>>} ELSE {})
    ELSE UNION {{<<c>> \o rest : rest \in Compositions(size - c, n - 1)} :
                  c \in 0..size}

RECURSIVE repeat_rows(_, _)
\* row r emitted cnts[r] times, rows in order
repeat_rows(rows, cnts) ==
    IF rows = <<>> THEN <<>>
    ELSE [c \in 1..Head(cnts) |-> Head(rows)]
         \o repeat_rows(Tail(rows), Tail(cnts))

\* mutant of np_repeat: the counts are read kernel-major (counts.T.ravel())
\* while the rows stay query-major
np_repeat_transposed(rows, cnts, m, n) ==
    repeat_rows(rows, [r \in 1..(m * n) |->
                        cnts[((r - 1) % m) * n + ((r - 1) \div m) + 1]])

\* np.repeat(mus.reshape(-1, ds), counts.ravel(), axis=0), kde.py:231: the
\* m*n rows and the m*n counts are both in query-major order
np_repeat(rows, cnts, m, n) == repeat_rows(rows, cnts)

\* mutant of dims_samp_of: the conditioned dimensions are not removed
dims_samp_keeps_cond(d, dims_cond) == SortedSeq(0..(d - 1))

\* np.setdiff1d(range(d), dims_cond): sorted unique values not in dims_cond
dims_samp_of(d, dims_cond) == SortedSeq((0..(d - 1)) \ Range(dims_cond))

\* the conditional mean of kernel j (1-based) for query row x, times det(C):
\* det(C)*dataset[samp, j] + B*adj(C)*(x - dataset[cond, j]), kde.py:226-227
cond_mean(X, detC, BadjC, x, j, samp, cond) ==
    [t \in 1..Len(samp) |->
       detC * X[samp[t] + 1][j]
       + SumSeq([c \in 1..Len(cond) |->
                   BadjC[t][c] * (x[c] - X[cond[c] + 1][j])])]

\* what a call that did not return a tensor leaves behind
no_sample(status, x_cond, dims_cond, size, draws, evals) ==
    [op |-> "conditional_resample", status |-> status, size |-> size,
     x_cond |-> x_cond, dims_cond |-> dims_cond, draws |-> draws,
     evals |-> evals, blocks |-> evals, dims_samp |-> <<>>, counts |-> <<>>, den |-> 0,
     mus |-> <<>>, out |-> <<>>]

\* kde.py:203-237, the call once the shape check has passed, with the
\* multinomial outcome `counts` (one row of n counts per query) and the noise
\* value.  np.linalg.inv raises on a singular C; reshape(-1, 0) raises
\* ValueError when nothing is left to sample; both happen after the
\* multinomial draws.
sample_checked(obj, size, x_cond, dims_cond, counts, noise) ==
    LET m == Len(x_cond)
        n == dim_n(obj)
        samp == dims_samp_of(dim_d(obj), dims_cond)
        C == Ix(obj.covariance, dims_cond, dims_cond)
        Cinv == np_inv(C)
        B == Ix(obj.covariance, samp, dims_cond)
        BadjC == MatMul(B, Adj(C), Len(dims_cond), Len(dims_cond))
        flat == [r \in 1..(m * n) |->
                   cond_mean(obj.dataset, Cinv.den, BadjC,
                             x_cond[((r - 1) \div n) + 1],
                             ((r - 1) % n) + 1, samp, dims_cond)]
        rep == np_repeat(flat, Flatten(counts), m, n)
        mus == [i \in 1..m |-> [s \in 1..size |-> rep[(i - 1) * size + s]]]
    IN  IF Cinv.exc # "none"
        THEN no_sample(Cinv.exc, x_cond, dims_cond, size, m, 1)
        ELSE IF Len(samp) = 0
        THEN no_sample("ValueError", x_cond, dims_cond, size, m, 1)
        ELSE [op |-> "conditional_resample", status |-> "ok", size |-> size,
              x_cond |-> x_cond, dims_cond |-> dims_cond, draws |-> m + 1,
              evals |-> 1, blocks |-> 1, dims_samp |-> samp,
              counts |-> counts, den |-> Cinv.den, mus |-> mus,
              out |-> [i \in 1..m |-> [s \in 1..size |->
                         [t \in 1..Len(samp) |->
                            mus[i][s][t] + Cinv.den * noise]]]]

\* mutant of conditional_resample: the shape check comes after the draw
conditional_resample_checks_late(obj, size, x_cond, dims_cond, counts, noise) ==
    IF Len(x_cond[1]) # Len(dims_cond)
    THEN no_sample("None", x_cond, dims_cond, size, Len(x_cond), 1)
    ELSE sample_checked(obj, size, x_cond, dims_cond, counts, noise)

\* conditional_resample(size, x_cond, dims_cond), kde.py:196-237: x_cond is
\* the (m, columns) array after atleast_2d; a column count other than
\* len(dims_cond) prints and returns None before anything else is done.
\* draws counts the calls made on random_state, evals the calls of
\* _mvn_logpdf, blocks the extractions of the blocks A, B, C.  Means and
\* samples are carried times den = det(C).
conditional_resample(obj, size, x_cond, dims_cond, counts, noise) ==
    IF Len(x_cond[1]) # Len(dims_cond)
    THEN no_sample("None", x_cond, dims_cond, size, 0, 0)
    ELSE sample_checked(obj, size, x_cond, dims_cond, counts, noise)

----------------------------------------------------------------------------
(* The state machine: one instance and the calls made on it *)

\* the instance inside scipy's __init__ before it calls set_bandwidth:
\* covariance_factor is the class default scotts_factor, nothing else is set
blank(ds) ==
    [dataset |-> ds, bw_type |-> "unset", h |-> Unset, loglike_cv |-> <<>>,
     covariance_factor |-> [kind |-> "scotts_factor", c |-> 0],
     factor |-> Unset, data_covariance |-> NoMatrix, data_cho_cov |-> NoChol,
     covariance |-> NoMatrix, cho_cov |-> NoChol, log_det |-> NoLogDet,
     n_data_cov |-> 0]

NoRet == [op |-> "none"]

\* how a set_bandwidth call ended
outcome(r) ==
    IF r.aborted THEN "aborted"
    ELSE IF r.exc = "none" THEN "completed" ELSE "raised"

\* install the attributes of obj as the next state
Becomes(obj) ==
    /\ dataset' = obj.dataset
    /\ bw_type' = obj.bw_type
    /\ h' = obj.h
    /\ loglike_cv' = obj.loglike_cv
    /\ covariance_factor' = obj.covariance_factor
    /\ factor' = obj.factor
    /\ data_covariance' = obj.data_covariance
    /\ data_cho_cov' = obj.data_cho_cov
    /\ covariance' = obj.covariance
    /\ cho_cov' = obj.cho_cov
    /\ log_det' = obj.log_det
    /\ n_data_cov' = obj.n_data_cov

\* gaussian_kde(dataset, bw_method), kde.py:15-18: the baseline constructor
\* calls self.set_bandwidth(bw_method=bw_method); a constructor that raises
\* yields no instance
Init ==
    \E ds \in Datasets, bw_method \in BwMethods :
      \E res \in minimize_results(blank(ds), "diagonal") :
        \E r \in {set_bandwidth(blank(ds), bw_method, "diagonal", <<>>, res)} :
            /\ r.exc = "none"
            /\ dataset = r.obj.dataset
            /\ bw_type = r.obj.bw_type
            /\ h = r.obj.h
            /\ loglike_cv = r.obj.loglike_cv
            /\ covariance_factor = r.obj.covariance_factor
            /\ factor = r.obj.factor
            /\ data_covariance = r.obj.data_covariance
            /\ data_cho_cov = r.obj.data_cho_cov
            /\ covariance = r.obj.covariance
            /\ cho_cov = r.obj.cho_cov
            /\ log_det = r.obj.log_det
            /\ n_data_cov = r.obj.n_data_cov
            /\ last_set = outcome(r)
            /\ ret = [op |-> "__init__"]

\* a call of set_bandwidth(bw_method, bw_type, k)
SetBandwidth ==
    /\ ret.op = "none"
    /\ \E bw_method \in BwMethods,
          type \in BwTypes,
          k \in {<<>>} \cup {<<i>> : i \in 0..dim_n(self)} :
         /\ bw_method.kind # "cv" => (type = "diagonal" /\ k = <<>>)
         /\ \E res \in minimize_results(self, type) :
              \E r \in {set_bandwidth(self, bw_method, type, k, res)} :
                  /\ Becomes(r.obj)
                  /\ last_set' = outcome(r)
                  /\ ret' = [op |-> "set_bandwidth", bw_method |-> bw_method,
                             bw_type |-> type, exc |-> r.exc,
                             aborted |-> r.aborted]

\* a read of the inv_cov property
InvCov ==
    /\ ret.op = "none"
    /\ \E r \in {inv_cov(self)} :
           /\ Becomes(r.obj)
           /\ ret' = [op |-> "inv_cov", exc |-> r.exc, num |-> r.num,
                      den |-> r.den]
    /\ UNCHANGED last_set

\* a call of kfold_split(X, k) with X.shape[0] = n
KfoldSplit ==
    /\ ret.op = "none"
    /\ \E n \in 1..MaxN, k \in 0..MaxN :
         \E r \in {kfold_split(n, k)} :
             ret' = [op |-> "kfold_split", n |-> n, k |-> k,
                    status |-> r.status, folds |-> r.folds]
    /\ Becomes(self)
    /\ UNCHANGED last_set

\* duplicate-free index sequences over 0..d-1, in any order
DimsConds(d) ==
    {q \in UNION {[1..l -> 0..(d - 1)] : l \in 0..d} :
        \A a, b \in DOMAIN q : a # b => q[a] # q[b]}

\* query matrices of m rows and ncols columns: row i is filled with
\* b + (i-1)*s, so rows are all equal (s = 0) or pairwise different (s = 1)
XConds(m, ncols) ==
    {[i \in 1..m |-> [c \in 1..ncols |-> b + (i - 1) * s]] :
        b \in XVals, s \in {0, 1}}

\* a call of conditional_resample(size, x_cond, dims_cond).  The random
\* outcome of the draws matters only to a call that gets to expand the means
\* (a call that raises loses its locals).
ConditionalResample ==
    /\ ret.op = "none"
    /\ \E size \in 0..MaxSize, m \in 1..MaxM, ncols \in 0..dim_d(self),
          dims_cond \in DimsConds(dim_d(self)) :
         \E x_cond \in XConds(m, ncols) :
           LET checked == ncols = Len(dims_cond)
               expanded ==
                   /\ checked
                   /\ Len(dims_cond) < dim_d(self)
                   /\ Det(Ix(covariance, dims_cond, dims_cond)) # 0
           IN  \E counts \in IF expanded
                              THEN [1..m -> Compositions(size, dim_n(self))]
                              ELSE {<<>>},
                  noise \in IF expanded THEN NoiseVals ELSE {0} :
                 ret' = conditional_resample(self, size, x_cond, dims_cond,
                                             counts, noise)
    /\ Becomes(self)
    /\ UNCHANGED last_set

\* the caller is done with the returned value and may call again
Discard ==
    /\ ret.op # "none"
    /\ ret' = NoRet
    /\ Becomes(self)
    /\ UNCHANGED last_set

\* bandwidth selection and covariance reads on one instance
Next ==
    \/ SetBandwidth
    \/ InvCov
    \/ Discard

Spec == Init /\ [][Next]_vars

\* direct calls of kfold_split
NextKfold ==
    \/ KfoldSplit
    \/ Discard

SpecKfold == Init /\ [][NextKfold]_vars

\* conditional sampling from a constructed instance
NextSample ==
    \/ ConditionalResample
    \/ Discard

SpecSample == Init /\ [][NextSample]_vars

----------------------------------------------------------------------------
(* Properties of kfold_split, checked under SpecKfold *)

\* the test blocks of a returned split, in fold order
Blocks(r) == [j \in 1..Len(r.folds) |-> r.folds[j].test]

\* k folds; every index 0..n-1 is in exactly one test set; in each fold the
\* train and test index sets are disjoint and together are all n indices
IsPartitionIntoFolds(r) ==
    /\ r.status = "ok"
    /\ Len(r.folds) = r.k
    /\ SumSeq([j \in 1..Len(r.folds) |-> Len(r.folds[j].test)]) = r.n
    /\ \A idx \in 0..(r.n - 1) :
          Cardinality({j \in 1..Len(r.folds) :
                         idx \in Range(r.folds[j].test)}) = 1
    /\ \A j \in 1..Len(r.folds) :
          /\ Range(r.folds[j].train) \cap Range(r.folds[j].test) = {}
          /\ Range(r.folds[j].train) \cup Range(r.folds[j].test)
                = 0..(r.n - 1)

\* C1 as stated: for every n >= 1 and 1 <= k <= n, kfold_split returns k
\* folds whose test sets partition 0..n-1 and whose train and test sets are
\* disjoint and cover all indices.
C1_AsStated ==
    (ret.op = "kfold_split" /\ 1 <= ret.k /\ ret.k <= ret.n)
        => IsPartitionIntoFolds(ret)

\* C1 amended: the same for 2 <= k <= n; for k = 1 the call raises
\* ValueError and returns no folds.
C1_KfoldPartition ==
    /\ (ret.op = "kfold_split" /\ 2 <= ret.k /\ ret.k <= ret.n)
          => IsPartitionIntoFolds(ret)
    /\ (ret.op = "kfold_split" /\ ret.k = 1)
          => (ret.status = "ValueError" /\ ret.folds = <<>>)

C1_Witness ==
    /\ ret.op = "kfold_split"
    /\ ret.n = 5
    /\ ret.k = 3
    /\ ret.status = "ok"
    /\ Len(ret.folds[2].train) = 3

\* the blocks, one after the other, are 0, 1, ..., n-1: each block is a
\* contiguous ascending run and the blocks come in ascending order
BlocksTileRange(r) == Flatten(Blocks(r)) = Arange(0, r.n)

BlockSizesWithinOne(r) ==
    \A i, j \in 1..Len(r.folds) :
        Len(r.folds[i].test) - Len(r.folds[j].test) <= 1

\* fold j: test is block j, train is the union of the other blocks
TrainIsTheOtherBlocks(r) ==
    \A j \in 1..Len(r.folds) :
        Range(r.folds[j].train)
          = UNION {Range(r.folds[i].test) : i \in (1..Len(r.folds)) \ {j}}

\* C9 as stated: for 1 <= k <= n the test blocks are contiguous ascending
\* runs, their sizes differ by at most one, the larger blocks come last, and
\* fold j has block j as test and the other blocks as train.
C9_AsStated ==
    (ret.op = "kfold_split" /\ 1 <= ret.k /\ ret.k <= ret.n)
        => /\ ret.status = "ok"
           /\ Len(ret.folds) = ret.k
           /\ BlocksTileRange(ret)
           /\ BlockSizesWithinOne(ret)
           /\ \A i, j \in 1..Len(ret.folds) :
                 i < j => Len(ret.folds[i].test) <= Len(ret.folds[j].test)
           /\ TrainIsTheOtherBlocks(ret)

\* C9 amended: for 2 <= k <= n the test blocks are contiguous ascending
\* runs, their sizes differ by at most one, the FIRST n mod k blocks are the
\* larger ones (n div k + 1 elements, the others n div k), and fold j has
\* block j as test and the other blocks as train.
C9_BlocksLargerFirst ==
    (ret.op = "kfold_split" /\ 2 <= ret.k /\ ret.k <= ret.n)
        => /\ ret.status = "ok"
           /\ Len(ret.folds) = ret.k
           /\ BlocksTileRange(ret)
           /\ BlockSizesWithinOne(ret)
           /\ \A j \in 1..Len(ret.folds) :
                 Len(ret.folds[j].test)
                   = (ret.n \div ret.k) + (IF j <= ret.n % ret.k THEN 1 ELSE 0)
           /\ TrainIsTheOtherBlocks(ret)

C9_Witness ==
    /\ ret.op = "kfold_split"
    /\ ret.n = 5
    /\ ret.k = 3
    /\ ret.status = "ok"
    /\ ret.folds[1].test = <<0, 1>>
    /\ ret.folds[3].test = <<4>>

----------------------------------------------------------------------------
(* Properties of the bandwidth state, checked under Spec *)

\* what self.covariance_factor() returns in the current state
ActiveFactor == call_covariance_factor(self)

\* factor**2 as it multiplies column j
FactorSquared(j) ==
    IF Len(factor.v) = 1 THEN factor.v[1] * factor.v[1]
    ELSE factor.v[j] * factor.v[j]

\* C2: set_bandwidth('cv', bw_type) with a bw_type other than 'diagonal',
\* 'covariance', 'equal' ends at the early return and leaves bw_type, h,
\* covariance_factor, factor, covariance, cho_cov, log_det and loglike_cv as
\* they were before the call, whatever calls came before.
C2_InvalidTypeKeepsState ==
    [][(/\ ret'.op = "set_bandwidth"
        /\ ret'.bw_method.kind = "cv"
        /\ ret'.bw_type \notin {"diagonal", "covariance", "equal"})
       => (/\ ret'.aborted
           /\ bw_type' = bw_type
           /\ h' = h
           /\ covariance_factor' = covariance_factor
           /\ ActiveFactor' = ActiveFactor
           /\ factor' = factor
           /\ covariance' = covariance
           /\ cho_cov' = cho_cov
           /\ log_det' = log_det
           /\ loglike_cv' = loglike_cv)]_vars

C2_Witness ==
    /\ ret.op = "set_bandwidth"
    /\ ret.bw_method.kind = "cv"
    /\ ret.bw_type = "other"
    /\ ret.aborted
    /\ bw_type = "equal"
    /\ h = Array(<<1>>)
    /\ loglike_cv = <<0 - 2>>

\* C4 as stated: once a cross-validated selection has stored h, every
\* component of h, and of factor while h is the active factor, is
\* non-negative.
C4_FactorsNonNegative ==
    h.shape # "unset"
        => /\ \A i \in 1..Len(h.v) : h.v[i] >= 0
           /\ covariance_factor.kind = "lambda_h"
                => \A i \in 1..Len(factor.v) : factor.v[i] >= 0

C6_CachesFollowCovariance ==
    /\ cho_cov = cholesky(covariance)
    /\ log_det = log_det_of(cho_cov)
    /\ LET r == inv_cov(self)
       IN  /\ r.exc = "none"
           /\ Len(r.num) = Len(covariance)
           /\ MatMul(r.num, covariance, Len(covariance), Len(covariance))
                 = ScalMat(r.den, Eye(Len(covariance)))

\* covariance, cho_cov and log_det are the ones computed from the current
\* bandwidth type and active factor
Recomputed ==
    /\ factor = ActiveFactor
    /\ derive_covariance(self, bw_type, factor).exc = "none"
    /\ covariance = derive_covariance(self, bw_type, factor).M
    /\ cho_cov = cholesky(covariance)
    /\ log_det = log_det_of(cho_cov)

\* C7 as stated: over any sequence of set_bandwidth calls the data
\* covariance and its Cholesky factor are computed at most once and never
\* change afterwards, and every call that changes the bandwidth type or the
\* active factor recomputes covariance, cho_cov and log_det.
C7_CachedOnceRecomputedAlways ==
    [][/\ n_data_cov' <= 1
       /\ data_covariance' = data_covariance
       /\ data_cho_cov' = data_cho_cov
       /\ (bw_type' # bw_type \/ ActiveFactor' # ActiveFactor)
            => Recomputed']_vars

----------------------------------------------------------------------------
(* Properties of conditional_resample, checked under SpecSample *)

\* x_cond has len(dims_cond) columns and dims_cond is a duplicate-free
\* sequence of indices in 0..d-1
ValidQuery(r) ==
    /\ Len(r.x_cond[1]) = Len(r.dims_cond)
    /\ Range(r.dims_cond) \subseteq 0..(Len(dataset) - 1)
    /\ Cardinality(Range(r.dims_cond)) = Len(r.dims_cond)

\* dims_samp is the ascending complement of dims_cond and the returned
\* tensor has shape (m, size, len(dims_samp))
HasSampleShape(r) ==
    /\ r.status = "ok"
    /\ Range(r.dims_samp) = (0..(Len(dataset) - 1)) \ Range(r.dims_cond)
    /\ \A a, b \in 1..Len(r.dims_samp) : a < b => r.dims_samp[a] < r.dims_samp[b]
    /\ Len(r.dims_samp) = Len(dataset) - Len(r.dims_cond)
    /\ Len(r.out) = Len(r.x_cond)
    /\ \A i \in 1..Len(r.out) :
          /\ Len(r.out[i]) = r.size
          /\ \A q \in 1..r.size : Len(r.out[i][q]) = Len(r.dims_samp)

\* C3: a call whose x_cond column count differs from len(dims_cond) returns
\* None without a tensor, takes no draw from the random source, extracts no
\* covariance block, evaluates no log-density, and leaves the fitted model
\* as it was.
C3_MismatchAbortsFirst ==
    [][(/\ ret'.op = "conditional_resample"
        /\ Len(ret'.x_cond[1]) # Len(ret'.dims_cond))
       => (/\ ret'.status = "None"
           /\ ret'.out = <<>>
           /\ ret'.draws = 0
           /\ ret'.blocks = 0
           /\ ret'.evals = 0
           /\ self' = self)]_vars

C3_Witness ==
    /\ ret.op = "conditional_resample"
    /\ ret.status = "None"
    /\ Len(ret.x_cond) = 2
    /\ Len(ret.x_cond[1]) = 2
    /\ ret.dims_cond = <<1>>
    /\ ret.size = 2

KernelMean(r, i, j) ==
    LET C == Ix(covariance, r.dims_cond, r.dims_cond)
        B == Ix(covariance, r.dims_samp, r.dims_cond)
    IN  cond_mean(dataset, Det(C),
                  MatMul(B, Adj(C), Len(r.dims_cond), Len(r.dims_cond)),
                  r.x_cond[i], j, r.dims_samp, r.dims_cond)

\* C10: in a call that returns, the kernel counts of every query i sum to
\* size, and among the size expanded rows of query i each value occurs as
\* often as the counts of the kernels of query i whose conditional mean it
\* is: counts[i, j] rows carry the mean of kernel j for query i, a kernel
\* with count 0 gives no row, no row comes from another query.
C10_RowsFollowCounts ==
    (ret.op = "conditional_resample" /\ ret.status = "ok")
        => \A i \in 1..Len(ret.x_cond) :
             LET n == Len(dataset[1])
                 means == [j \in 1..n |-> KernelMean(ret, i, j)]
             IN  /\ SumSeq(ret.counts[i]) = ret.size
                 /\ Len(ret.mus[i]) = ret.size
                 /\ \A v \in Range(means) \cup Range(ret.mus[i]) :
                       Cardinality({q \in 1..ret.size : ret.mus[i][q] = v})
                         = SumSeq([j \in 1..n |->
                                     IF means[j] = v THEN ret.counts[i][j]
                                     ELSE 0])

C10_Witness ==
    /\ ret.op = "conditional_resample"
    /\ ret.status = "ok"
    /\ Len(dataset) = 2
    /\ bw_type = "covariance_original"
    /\ ret.dims_cond = <<0>>
    /\ ret.size = 2
    /\ ret.x_cond = << <<0>>, <<1>> >>
    /\ ret.counts = << <<2, 0, 0>>, <<0, 1, 1>> >>
    /\ ret.mus[1][1] # ret.mus[2][1]

====
